---- MODULE Spec2Model ----
(***************************************************************************)
(* Project / Task / TimeEntry time tracking API (Django REST framework).   *)
(*                                                                         *)
(* The committed database is the three tables projects, tasks, entries.    *)
(* A request that runs in several steps (start_timer, stop_timer, task     *)
(* update) is carried by a worker; req[w] is the worker's position in the  *)
(* handler together with the handler's local variables, resp the          *)
(* response sent by the latest step (NoResponse when it sent none).        *)
(* lock[t] is the row lock that select_for_update() takes on a Task row    *)
(* until the surrounding                                                   *)
(* transaction.atomic block exits.  Writes made inside an atomic block     *)
(* reach the committed tables when the block exits (READ COMMITTED).       *)
(* Time is a clock in seconds that never runs backwards and advances by    *)
(* TickSeconds at a time; timezone.now() reads it.  cache is the django    *)
(* cache: an entry is dropped when its timeout has passed.                 *)
(***************************************************************************)
EXTENDS Integers, Sequences, FiniteSets, TLC

\* Bounds of the model.
MaxProjects == 1
MaxTasks == 2
MaxEntries == 2
MaxTicks == 2
TickSeconds == 43200
NumWorkers == 2
MaxDay == 8
MaxComputeTicks == 3

\* null=True columns (end_time, duration) hold NULL until the timer stops.
NULL == -1

TODO == "todo"
IN_PROGRESS == "in_progress"
DONE == "done"
Status == {TODO, IN_PROGRESS, DONE}

ProjectIds == 1..MaxProjects
TaskIds == 1..MaxTasks
EntryIds == 1..MaxEntries
Workers == 1..NumWorkers

HTTP_200_OK == 200
HTTP_201_CREATED == 201
HTTP_400_BAD_REQUEST == 400
HTTP_404_NOT_FOUND == 404
HTTP_500_INTERNAL_SERVER_ERROR == 500

ERR_NONE == ""
ERR_ALREADY_ACTIVE == "Task already has an active timer"
ERR_NO_ACTIVE == "No active timer found for this task"
ERR_TASK_NOT_FOUND == "Task not found"
ERR_INTERNAL == "Internal server error"
ERR_NOT_FOUND == "Not found."

VARIABLES
    projects,     \* set of ids of the Project rows
    tasks,        \* Task rows: id -> [project, status, estimated_time, spent_time]
    entries,      \* TimeEntry rows: id -> [task, start_time, end_time, duration]
    nextProject,  \* ids are fresh (uuid4): the next unused id of each table
    nextTask,
    nextEntry,
    lock,         \* Task id -> the worker holding the row lock, 0 when free
    req,          \* worker -> the request it is serving
    resp,         \* the response the latest step sent, if it sent one
    cache,        \* django cache: key -> stored value
    now           \* the clock

vars == <<projects, tasks, entries, nextProject, nextTask, nextEntry,
          lock, req, resp, cache, now>>

db == <<projects, tasks, entries, nextProject, nextTask, nextEntry>>

----------------------------------------------------------------------------
\* Helpers over functions with a changing domain.

Put(f, k, v) == [x \in DOMAIN f \cup {k} |-> IF x = k THEN v ELSE f[x]]

Drop(f, ks) == [x \in DOMAIN f \ ks |-> f[x]]

RECURSIVE SumOver(_, _)
SumOver(f, S) ==
    IF S = {} THEN 0
    ELSE LET x == CHOOSE y \in S : TRUE
         IN  f[x] + SumOver(f, S \ {x})

----------------------------------------------------------------------------
\* Models.

\* The lookup end_time__isnull=True, as used by has_active_timer, by
\* active_timer and by the condition of unique_active_timer_per_task.
end_time__isnull_negated(e) == entries[e].end_time # NULL

end_time__isnull(e) == entries[e].end_time = NULL

\* task.time_entries: the reverse relation of TimeEntry.task.
time_entries(t) == {e \in DOMAIN entries : entries[e].task = t}

has_active_timer_skipped(t) == FALSE

\* Task.has_active_timer
has_active_timer(t) == \E e \in time_entries(t) : end_time__isnull(e)

active_timer_latest(t) ==
    {e \in time_entries(t) :
        \A f \in time_entries(t) : entries[f].start_time <= entries[e].start_time}

\* Task.active_timer: .first() of the open entries under Meta.ordering
\* ['-start_time']; the set is empty when there is none.
active_timer(t) ==
    {e \in time_entries(t) :
        /\ end_time__isnull(e)
        /\ \A f \in time_entries(t) :
              end_time__isnull(f) => entries[f].start_time <= entries[e].start_time}

unique_timer_per_task(t) == time_entries(t) = {}

\* TimeEntry.Meta.constraints: UniqueConstraint(fields=['task'],
\* condition=Q(end_time__isnull=True)); whether a new open row for task t
\* is accepted by the table.
unique_active_timer_per_task(t) ==
    ~ \E e \in time_entries(t) : end_time__isnull(e)

TimeEntry_save_swapped(row) ==
    IF row.end_time # NULL /\ row.start_time # NULL
    THEN [row EXCEPT !.duration = row.start_time - row.end_time]
    ELSE row

\* TimeEntry.save: duration is recomputed whenever both times are set.
TimeEntry_save(row) ==
    IF row.end_time # NULL /\ row.start_time # NULL
    THEN [row EXCEPT !.duration = row.end_time - row.start_time]
    ELSE row

\* on_delete=CASCADE
TasksOfProject(p) == {t \in DOMAIN tasks : tasks[t].project = p}

EntriesOfTasks_closed(ts) ==
    {e \in DOMAIN entries : entries[e].task \in ts /\ entries[e].end_time # NULL}

EntriesOfTasks(ts) == {e \in DOMAIN entries : entries[e].task \in ts}

----------------------------------------------------------------------------
\* Requests and responses.

Idle == [op |-> "idle", pc |-> "idle", task_id |-> 0, project |-> 0,
         status |-> TODO, estimated_time |-> 0, spent_time |-> 0,
         entry |-> 0, time |-> NULL, fault |-> "none"]

NoData == << >>

NoResponse == [worker |-> 0, code |-> 0, error |-> ERR_NONE, data |-> NoData]

Response(w, code, error) ==
    [worker |-> w, code |-> code, error |-> error, data |-> NoData]

Init ==
    /\ projects = {}
    /\ tasks = << >>
    /\ entries = << >>
    /\ nextProject = 1
    /\ nextTask = 1
    /\ nextEntry = 1
    /\ lock = [t \in TaskIds |-> 0]
    /\ req = [w \in Workers |-> Idle]
    /\ resp = NoResponse
    /\ cache = << >>
    /\ now = 0

\* Time passes; the cache entries whose timeout has passed are gone.
Tick ==
    /\ now < MaxTicks * TickSeconds
    /\ now' = now + TickSeconds
    /\ cache' = Drop(cache, {k \in DOMAIN cache : cache[k].expires <= now'})
    /\ resp' = NoResponse
    /\ UNCHANGED <<db, lock, req>>

----------------------------------------------------------------------------
\* Cache keys, built as the f-strings build them.

dashboard_metrics_key == "dashboard_metrics"

project_metrics_key(p) == "project_" \o ToString(p) \o "_metrics"

\* cache.delete(key)
cache_delete(c, keys) == Drop(c, keys)

clear_whole_cache(c, p) == << >>

\* The two cache.delete calls of start_timer and stop_timer.
clear_relevant_cache(c, p) ==
    cache_delete(c, {dashboard_metrics_key, project_metrics_key(p)})

----------------------------------------------------------------------------
\* Project and Task views (generics.ListCreateAPIView,
\* generics.RetrieveUpdateDestroyAPIView).

\* POST projects/
ProjectCreate ==
    /\ nextProject <= MaxProjects
    /\ projects' = projects \cup {nextProject}
    /\ nextProject' = nextProject + 1
    /\ resp' = NoResponse
    /\ UNCHANGED <<tasks, entries, nextTask, nextEntry, lock, req, cache, now>>

\* DELETE projects/<id>/: the project's tasks and their entries go with it.
\* The delete of a Task row waits for the row lock.
ProjectDelete(p) ==
    /\ p \in projects
    /\ \A t \in TasksOfProject(p) : lock[t] = 0
    /\ projects' = projects \ {p}
    /\ tasks' = Drop(tasks, TasksOfProject(p))
    /\ entries' = Drop(entries, EntriesOfTasks(TasksOfProject(p)))
    /\ resp' = NoResponse
    /\ UNCHANGED <<nextProject, nextTask, nextEntry, lock, req, cache, now>>

perform_create_unchecked(project_id, status, estimated_time) ==
    /\ nextTask <= MaxTasks
    /\ tasks' = Put(tasks, nextTask,
                    [project |-> project_id, status |-> status,
                     estimated_time |-> estimated_time, spent_time |-> 0])
    /\ nextTask' = nextTask + 1
    /\ UNCHANGED <<projects, entries, nextProject, nextEntry, lock, req, cache, now>>

\* TaskListCreateView.perform_create: Project.objects.get(id=project_id),
\* then serializer.save(project=project).  spent_time is read-only in
\* TaskCreateUpdateSerializer, so the row gets the field's default.
perform_create(project_id, status, estimated_time) ==
    /\ nextTask <= MaxTasks
    /\ IF project_id \in projects
       THEN /\ tasks' = Put(tasks, nextTask,
                            [project |-> project_id, status |-> status,
                             estimated_time |-> estimated_time, spent_time |-> 0])
            /\ nextTask' = nextTask + 1
       ELSE UNCHANGED <<tasks, nextTask>>
    /\ UNCHANGED <<projects, entries, nextProject, nextEntry, lock, req, cache, now>>

\* POST tasks/ as the other requests see it: the rows it writes.
TaskCreate(project_id, status, estimated_time) ==
    /\ perform_create(project_id, status, estimated_time)
    /\ resp' = NoResponse

\* TaskCreateUpdateSerializer(instance).data of the row just created:
\* project_id is write-only and is not in it.
created_task_data(status, estimated_time) ==
    [id |-> nextTask,
     status |-> status,
     estimated_time |-> estimated_time,
     spent_time |-> 0,
     has_active_timer |-> FALSE,
     active_timer |-> {},
     time_entries |-> {}]

\* POST tasks/ with its answer: 201 with the new task, or the error that
\* the ValidationError raised by perform_create ends in.
TaskCreatePost(project_id, status, estimated_time) ==
    /\ perform_create(project_id, status, estimated_time)
    /\ resp' = IF project_id \in projects
               THEN [worker |-> 0, code |-> HTTP_201_CREATED, error |-> ERR_NONE,
                     data |-> created_task_data(status, estimated_time)]
               ELSE Response(0, HTTP_500_INTERNAL_SERVER_ERROR, ERR_INTERNAL)

\* DELETE tasks/<id>/
TaskDelete(t) ==
    /\ t \in DOMAIN tasks
    /\ lock[t] = 0
    /\ tasks' = Drop(tasks, {t})
    /\ entries' = Drop(entries, EntriesOfTasks({t}))
    /\ resp' = NoResponse
    /\ UNCHANGED <<projects, nextProject, nextTask, nextEntry, lock, req, cache, now>>

\* PUT/PATCH tasks/<id>/, first half: get_object() reads the row.  The
\* instance keeps the columns the request does not set, spent_time (read-only
\* in TaskCreateUpdateSerializer) and project among them.
TaskUpdateRead(w, t) ==
    /\ req[w] = Idle
    /\ IF t \in DOMAIN tasks
       THEN /\ req' = [req EXCEPT ![w] =
                    [Idle EXCEPT !.op = "update", !.pc = "save", !.task_id = t,
                                 !.project = tasks[t].project,
                                 !.spent_time = tasks[t].spent_time]]
            /\ resp' = NoResponse
       ELSE /\ resp' = Response(w, HTTP_404_NOT_FOUND, ERR_NOT_FOUND)
            /\ UNCHANGED req
    /\ UNCHANGED <<db, lock, cache, now>>

\* The row serializer.save() writes: Model.save() without update_fields
\* writes every column of the instance read by get_object(), with the
\* validated fields of the request set on it.  project_id is NULL when the
\* request (a PATCH) does not carry one.
TaskUpdateRow(r, project_id, status, estimated_time) ==
    [project |-> IF project_id = NULL THEN r.project ELSE project_id,
     status |-> status,
     estimated_time |-> estimated_time, spent_time |-> r.spent_time]

\* PUT/PATCH tasks/<id>/, second half: serializer.save().  The UPDATE waits
\* for the row lock; when no row matches, Model.save() INSERTs the row, which
\* the foreign key to Project rejects if the project is gone.
TaskUpdateSave(w, project_id, status, estimated_time) ==
    /\ req[w].op = "update"
    /\ req[w].pc = "save"
    /\ lock[req[w].task_id] = 0
    /\ IF TaskUpdateRow(req[w], project_id, status, estimated_time).project \in projects
       THEN /\ tasks' = Put(tasks, req[w].task_id,
                            TaskUpdateRow(req[w], project_id, status, estimated_time))
            /\ resp' = Response(w, HTTP_200_OK, ERR_NONE)
       ELSE /\ UNCHANGED tasks
            /\ resp' = Response(w, HTTP_500_INTERNAL_SERVER_ERROR, ERR_INTERNAL)
    /\ req' = [req EXCEPT ![w] = Idle]
    /\ UNCHANGED <<projects, entries, nextProject, nextTask, nextEntry, lock, cache, now>>

----------------------------------------------------------------------------
\* start_timer and stop_timer.  Each runs inside transaction.atomic: "get" is
\* Task.objects.select_for_update().get(id=task_id), "body" the rest of the
\* try block, "commit" the exit of the atomic block.

InFlight(op) == {w \in Workers : req[w].op = op}

\* A worker holding the row lock lets it go when its atomic block exits.
Unlock(w) == [t \in TaskIds |-> IF lock[t] = w THEN 0 ELSE lock[t]]

\* POST tasks/<task_id>/start-timer/ arrives.  Every start in flight may
\* need an unused TimeEntry id.
StartTimerRequest(w, t) ==
    /\ req[w] = Idle
    /\ nextEntry + Cardinality(InFlight("start_timer")) <= MaxEntries
    /\ req' = [req EXCEPT ![w] =
            [Idle EXCEPT !.op = "start_timer", !.pc = "get", !.task_id = t]]
    /\ resp' = NoResponse
    /\ UNCHANGED <<db, lock, cache, now>>

\* POST tasks/<task_id>/stop-timer/ arrives.
StopTimerRequest(w, t) ==
    /\ req[w] = Idle
    /\ req' = [req EXCEPT ![w] =
            [Idle EXCEPT !.op = "stop_timer", !.pc = "get", !.task_id = t]]
    /\ resp' = NoResponse
    /\ UNCHANGED <<db, lock, cache, now>>

\* Whether SELECT ... FOR UPDATE on Task row t returns now: it waits while
\* another transaction holds the row.
select_for_update_missing(t) == TRUE

select_for_update(t) == lock[t] = 0

\* except Exception: the generic 500.
internal_server_error(w) ==
    Response(w, HTTP_500_INTERNAL_SERVER_ERROR, ERR_INTERNAL)

task_not_found_as_exception(w) ==
    Response(w, HTTP_500_INTERNAL_SERVER_ERROR, ERR_INTERNAL)

\* except Task.DoesNotExist
task_not_found(w) == Response(w, HTTP_404_NOT_FOUND, ERR_TASK_NOT_FOUND)

\* Task.objects.select_for_update().get(id=task_id); Task.DoesNotExist is
\* answered with 404.
TimerGet(w, op) ==
    /\ req[w].op = op
    /\ req[w].pc = "get"
    /\ LET t == req[w].task_id IN
       IF t \in DOMAIN tasks
       THEN /\ select_for_update(t)
            /\ lock' = [lock EXCEPT ![t] = w]
            /\ req' = [req EXCEPT ![w].pc = "body"]
            /\ resp' = NoResponse
       ELSE /\ resp' = task_not_found(w)
            /\ req' = [req EXCEPT ![w] = Idle]
            /\ UNCHANGED lock
    /\ UNCHANGED <<db, cache, now>>

StartTimerGet(w) == TimerGet(w, "start_timer")

StopTimerGet(w) == TimerGet(w, "stop_timer")

start_timer_status_always(status) == IN_PROGRESS

\* The status start_timer leaves the task with.
start_timer_status(status) == IF status = TODO THEN IN_PROGRESS ELSE status

\* start_timer, from the has_active_timer check to the return.
StartTimerBody(w) ==
    /\ req[w].op = "start_timer"
    /\ req[w].pc = "body"
    /\ LET t == req[w].task_id IN
       IF has_active_timer(t)
       THEN /\ resp' = Response(w, HTTP_400_BAD_REQUEST, ERR_ALREADY_ACTIVE)
            /\ req' = [req EXCEPT ![w] = Idle]
            /\ lock' = Unlock(w)
            /\ UNCHANGED cache
       ELSE /\ req' = [req EXCEPT ![w].pc = "commit",
                                  ![w].time = now,
                                  ![w].project = tasks[t].project,
                                  ![w].status = start_timer_status(tasks[t].status)]
            /\ cache' = clear_relevant_cache(cache, tasks[t].project)
            /\ resp' = NoResponse
            /\ UNCHANGED lock
    /\ UNCHANGED <<db, now>>

\* What can go wrong in start_timer after the has_active_timer check.
\* "database": the INSERT of the entry or the UPDATE of the status raises a
\* DatabaseError; Model.save() marks the transaction for rollback before the
\* handler's except clause sees it.  "cache": a cache.delete call raises (the
\* cache backend cannot be reached); the transaction is not marked.
Faults == {"database", "cache"}

\* start_timer, from the has_active_timer check on, when a call raises: the
\* except Exception clause answers 500 when the atomic block has exited.
StartTimerFault(w, fault) ==
    /\ req[w].op = "start_timer"
    /\ req[w].pc = "body"
    /\ fault \in Faults
    /\ LET t == req[w].task_id IN
       /\ ~ has_active_timer(t)
       /\ req' = [req EXCEPT ![w].pc = "commit",
                             ![w].time = now,
                             ![w].project = tasks[t].project,
                             ![w].status = start_timer_status(tasks[t].status),
                             ![w].fault = fault]
    /\ resp' = NoResponse
    /\ UNCHANGED <<db, lock, cache, now>>

\* Atomic.__exit__: the block commits unless the transaction was marked for
\* rollback, whether or not the handler caught an exception.
needs_rollback(fault) == fault = "database"

new_time_entry_default_start(t, start_time) ==
    TimeEntry_save([task |-> t, start_time |-> 0,
                    end_time |-> NULL, duration |-> NULL])

\* The row TimeEntry.objects.create(task=task, start_time=timezone.now()) makes.
new_time_entry(t, start_time) ==
    TimeEntry_save([task |-> t, start_time |-> start_time,
                    end_time |-> NULL, duration |-> NULL])

\* start_timer's atomic block exits: the new row and the status reach the
\* tables.  A row the partial unique index rejects is an IntegrityError,
\* answered with 500, and nothing is written.
StartTimerCommit(w) ==
    /\ req[w].op = "start_timer"
    /\ req[w].pc = "commit"
    /\ LET t == req[w].task_id IN
       IF unique_active_timer_per_task(t) /\ ~ needs_rollback(req[w].fault)
       THEN /\ entries' = Put(entries, nextEntry, new_time_entry(t, req[w].time))
            /\ nextEntry' = nextEntry + 1
            /\ tasks' = [tasks EXCEPT ![t].status = req[w].status]
            /\ resp' = IF req[w].fault = "none"
                       THEN Response(w, HTTP_201_CREATED, ERR_NONE)
                       ELSE internal_server_error(w)
       ELSE /\ UNCHANGED <<entries, nextEntry, tasks>>
            /\ resp' = internal_server_error(w)
    /\ req' = [req EXCEPT ![w] = Idle]
    /\ lock' = Unlock(w)
    /\ UNCHANGED <<projects, nextProject, nextTask, cache, now>>

stopped_entry_restarted(row, end_time) ==
    [row EXCEPT !.start_time = end_time, !.end_time = end_time, !.duration = 0]

\* The active entry as stop_timer saves it: end_time and duration set, then
\* TimeEntry.save().
stopped_entry(row, end_time) ==
    TimeEntry_save([row EXCEPT !.end_time = end_time,
                               !.duration = end_time - row.start_time])

add_spent_time_overwrite(spent_time, duration) == duration

\* task.spent_time += active_timer.duration
add_spent_time(spent_time, duration) == spent_time + duration

\* stop_timer, from the active_timer lookup to the return.
StopTimerBody(w) ==
    /\ req[w].op = "stop_timer"
    /\ req[w].pc = "body"
    /\ LET t == req[w].task_id IN
       IF active_timer(t) = {}
       THEN /\ resp' = Response(w, HTTP_400_BAD_REQUEST, ERR_NO_ACTIVE)
            /\ req' = [req EXCEPT ![w] = Idle]
            /\ lock' = Unlock(w)
            /\ UNCHANGED cache
       ELSE /\ \E e \in active_timer(t) :
                 req' = [req EXCEPT ![w].pc = "commit",
                                    ![w].entry = e,
                                    ![w].time = now,
                                    ![w].project = tasks[t].project,
                                    ![w].spent_time =
                                        add_spent_time(tasks[t].spent_time,
                                            stopped_entry(entries[e], now).duration)]
            /\ cache' = clear_relevant_cache(cache, tasks[t].project)
            /\ resp' = NoResponse
            /\ UNCHANGED lock
    /\ UNCHANGED <<db, now>>

save_spent_time_and_done(row, spent_time) ==
    [row EXCEPT !.spent_time = spent_time, !.status = DONE]

\* task.save(update_fields=['spent_time']): the one column is written.
save_spent_time(row, spent_time) == [row EXCEPT !.spent_time = spent_time]

\* stop_timer, from the active_timer lookup on, when a call raises:
\* "database" is active_timer.save() or task.save() raising a DatabaseError,
\* "cache" a cache.delete call raising.  The except Exception clause answers
\* 500 when the atomic block has exited.
StopTimerFault(w, fault) ==
    /\ req[w].op = "stop_timer"
    /\ req[w].pc = "body"
    /\ fault \in Faults
    /\ LET t == req[w].task_id IN
       \E e \in active_timer(t) :
          req' = [req EXCEPT ![w].pc = "commit",
                             ![w].entry = e,
                             ![w].time = now,
                             ![w].project = tasks[t].project,
                             ![w].spent_time =
                                 add_spent_time(tasks[t].spent_time,
                                     stopped_entry(entries[e], now).duration),
                             ![w].fault = fault]
    /\ resp' = NoResponse
    /\ UNCHANGED <<db, lock, cache, now>>

\* stop_timer's atomic block exits: the closed entry and the task's
\* spent_time reach the tables unless the transaction is rolled back.
StopTimerCommit(w) ==
    /\ req[w].op = "stop_timer"
    /\ req[w].pc = "commit"
    /\ LET t == req[w].task_id
           e == req[w].entry
       IN  /\ IF needs_rollback(req[w].fault)
              THEN UNCHANGED <<entries, tasks>>
              ELSE /\ entries' = [entries EXCEPT
                                    ![e] = stopped_entry(entries[e], req[w].time)]
                   /\ tasks' = [tasks EXCEPT ![t] = save_spent_time(tasks[t], req[w].spent_time)]
           /\ resp' = IF req[w].fault = "none"
                      THEN Response(w, HTTP_200_OK, ERR_NONE)
                      ELSE internal_server_error(w)
    /\ req' = [req EXCEPT ![w] = Idle]
    /\ lock' = Unlock(w)
    /\ UNCHANGED <<projects, nextProject, nextTask, nextEntry, cache, now>>

----------------------------------------------------------------------------
\* dashboard_overview.  A query parameter is absent (None) or a string.

None == [present |-> FALSE, value |-> ""]

Str(v) == [present |-> TRUE, value |-> v]

\* How an f-string renders a query parameter.
format_param(x) == IF x.present THEN x.value ELSE "None"

\* The truth value of a query parameter: None and '' are false.
truthy(x) == x.present /\ x.value # ""

\* cache_key = f"dashboard_metrics_{start_date}_{end_date}"
dashboard_cache_key(start_date, end_date) ==
    "dashboard_metrics_" \o format_param(start_date) \o "_" \o format_param(end_date)

\* Calendar days are counted from 2025-08-01, the day the clock starts in;
\* the dates of the model are the days of that month up to MaxDay.
SECONDS_PER_DAY == 86400

Days == 0..MaxDay

\* {n:02d}
Pad2(n) == IF n < 10 THEN "0" \o ToString(n) ELSE ToString(n)

\* start_time__date
date(t) == t \div SECONDS_PER_DAY

\* The spellings of day d that '%Y-%m-%d' accepts: strptime takes the month
\* and the day with or without the leading zero.
DateString(d) == "2025-08-" \o Pad2(d + 1)

DateSpellings(d) ==
    {DateString(d), "2025-8-" \o ToString(d + 1), "2025-8-" \o Pad2(d + 1),
     "2025-08-" \o ToString(d + 1)}

ValueError == -1

\* The strings '%Y-%m-%d' accepts, each with the day it denotes.
ParsedDates ==
    UNION {{<<s, d>> : s \in DateSpellings(d)} : d \in Days}

\* datetime.strptime(s, '%Y-%m-%d').date()
strptime(s) ==
    IF \E sd \in ParsedDates : sd[1] = s
    THEN (CHOOSE sd \in ParsedDates : sd[1] = s)[2]
    ELSE ValueError

ERR_INVALID_START == "Invalid start_date format. Use YYYY-MM-DD"
ERR_INVALID_END == "Invalid end_date format. Use YYYY-MM-DD"

\* Sum(...) over no row is None.
Sum(f, S) == IF S = {} THEN NULL ELSE SumOver(f, S)

format_duration_day_rollover(duration) ==
    IF duration = NULL \/ duration = 0
    THEN "00:00"
    ELSE Pad2((duration \div 3600) % 24) \o ":" \o Pad2((duration % 3600) \div 60)

format_duration(duration) ==
    IF duration = NULL \/ duration = 0
    THEN "00:00"
    ELSE Pad2(duration \div 3600) \o ":" \o Pad2((duration % 3600) \div 60)

task_counts_unfilled ==
    [s \in {tasks[t].status : t \in DOMAIN tasks} |->
        Cardinality({t \in DOMAIN tasks : tasks[t].status = s})]

\* Task counts per status, the missing statuses filled in with 0.
task_counts ==
    LET counted == {tasks[t].status : t \in DOMAIN tasks}
    IN  [s \in counted \cup Status |->
            IF s \in counted
            THEN Cardinality({t \in DOMAIN tasks : tasks[t].status = s})
            ELSE 0]

time_aggregates_none == [total_estimated |-> NULL, total_spent |-> NULL]

\* tasks_qs.aggregate(total_estimated=Sum(...), total_spent=Sum(...))
time_aggregates ==
    [total_estimated |->
        Sum([t \in DOMAIN tasks |-> tasks[t].estimated_time], DOMAIN tasks),
     total_spent |->
        Sum([t \in DOMAIN tasks |-> tasks[t].spent_time], DOMAIN tasks)]

time_entries_qs_unfiltered(start_date, end_date) == DOMAIN entries

time_entries_qs_either(start_date, end_date) ==
    {e \in DOMAIN entries :
        \/ truthy(start_date) /\ date(entries[e].start_time) >= strptime(start_date.value)
        \/ truthy(end_date) /\ date(entries[e].start_time) <= strptime(end_date.value)}

\* time_entries_qs with the date filters of the parameters that are given.
time_entries_qs(start_date, end_date) ==
    {e \in DOMAIN entries :
        /\ truthy(start_date) => date(entries[e].start_time) >= strptime(start_date.value)
        /\ truthy(end_date) => date(entries[e].start_time) <= strptime(end_date.value)}

\* The spent_time of the project's row in time_spent_per_project.
project_spent_time(p, start_date, end_date) ==
    IF truthy(start_date) \/ truthy(end_date)
    THEN LET project_entries ==
                 {e \in time_entries_qs(start_date, end_date) :
                     /\ entries[e].task \in TasksOfProject(p)
                     /\ entries[e].end_time # NULL}
             total == Sum([e \in project_entries |-> entries[e].duration],
                          project_entries)
         IN  format_duration(IF total = NULL THEN 0 ELSE total)
    ELSE format_duration(Sum([t \in TasksOfProject(p) |-> tasks[t].spent_time],
                             TasksOfProject(p)))

\* Project.Meta.ordering = ['-created']: the latest project first.
RECURSIVE ProjectsLatestFirst(_)
ProjectsLatestFirst(ps) ==
    IF ps = {} THEN << >>
    ELSE LET p == CHOOSE x \in ps : \A y \in ps : y <= x
         IN  <<p>> \o ProjectsLatestFirst(ps \ {p})

project_time_data(start_date, end_date) ==
    LET ordered == ProjectsLatestFirst(projects)
    IN  [i \in 1..Len(ordered) |->
            [project_id |-> ordered[i],
             spent_time |-> project_spent_time(ordered[i], start_date, end_date)]]

date_filter_both(start_date, end_date) ==
    [start_date |-> format_param(start_date), end_date |-> format_param(end_date)]

date_filter(start_date, end_date) ==
    [k \in (IF truthy(start_date) THEN {"start_date"} ELSE {})
           \cup (IF truthy(end_date) THEN {"end_date"} ELSE {}) |->
        IF k = "start_date" THEN start_date.value ELSE end_date.value]

\* The dict dashboard_overview builds and stores in the cache.
dashboard_data(start_date, end_date) ==
    [task_counts |-> task_counts,
     total_estimated_time |-> format_duration(time_aggregates.total_estimated),
     total_spent_time |-> format_duration(time_aggregates.total_spent),
     time_spent_per_project |-> project_time_data(start_date, end_date)]
    @@ (IF date_filter(start_date, end_date) # << >>
        THEN [date_range_filter |-> date_filter(start_date, end_date)]
        ELSE << >>)

\* DashboardSerializer(data).data: the declared fields the dict has.
DashboardSerializer(data) ==
    LET fields == {"task_counts", "total_estimated_time", "total_spent_time",
                   "time_spent_per_project", "date_range_filter"}
    IN  [k \in DOMAIN data \cap fields |-> data[k]]

CACHE_TIMEOUT == 300

cache_set_dropped(c, key, value, timeout) == c

\* cache.set(key, value, timeout)
cache_set(c, key, value, timeout) ==
    Put(c, key, [data |-> value, expires |-> now + timeout])

\* GET dashboard/?start_date=..&end_date=..
Dashboard(start_date, end_date) ==
    LET cache_key == dashboard_cache_key(start_date, end_date)
        data == dashboard_data(start_date, end_date)
    IN
    /\ IF cache_key \in DOMAIN cache
       THEN /\ resp' = [worker |-> 0, code |-> HTTP_200_OK, error |-> ERR_NONE,
                        data |-> cache[cache_key].data]
            /\ UNCHANGED cache
       ELSE IF truthy(start_date) /\ strptime(start_date.value) = ValueError
       THEN /\ resp' = Response(0, HTTP_400_BAD_REQUEST, ERR_INVALID_START)
            /\ UNCHANGED cache
       ELSE IF truthy(end_date) /\ strptime(end_date.value) = ValueError
       THEN /\ resp' = Response(0, HTTP_400_BAD_REQUEST, ERR_INVALID_END)
            /\ UNCHANGED cache
       ELSE /\ cache' = cache_set(cache, cache_key, data, CACHE_TIMEOUT)
            /\ resp' = [worker |-> 0, code |-> HTTP_200_OK, error |-> ERR_NONE,
                        data |-> DashboardSerializer(data)]
    /\ UNCHANGED <<db, lock, req, now>>

----------------------------------------------------------------------------
\* TaskSerializer and GET tasks/<id>/.

\* TaskSerializer.get_estimated_time_hours
get_estimated_time_hours(obj) ==
    LET total_seconds == obj.estimated_time
        hours == total_seconds \div 3600
        remainder == total_seconds % 3600
        minutes == remainder \div 60
    IN  Pad2(hours) \o ":" \o Pad2(minutes)

\* TaskSerializer.get_spent_time_hours
get_spent_time_hours(obj) ==
    LET total_seconds == obj.spent_time
        hours == total_seconds \div 3600
        remainder == total_seconds % 3600
        minutes == remainder \div 60
    IN  Pad2(hours) \o ":" \o Pad2(minutes)

\* TaskSerializer(task).data, without the text fields.
TaskSerializer(t) ==
    [id |-> t,
     status |-> tasks[t].status,
     estimated_time |-> tasks[t].estimated_time,
     spent_time |-> tasks[t].spent_time,
     estimated_time_hours |-> get_estimated_time_hours(tasks[t]),
     spent_time_hours |-> get_spent_time_hours(tasks[t]),
     has_active_timer |-> has_active_timer(t),
     active_timer |-> active_timer(t),
     time_entries |-> time_entries(t)]

\* GET tasks/<id>/
TaskRetrieve(t) ==
    /\ resp' = IF t \in DOMAIN tasks
               THEN [worker |-> 0, code |-> HTTP_200_OK, error |-> ERR_NONE,
                     data |-> TaskSerializer(t)]
               ELSE Response(0, HTTP_404_NOT_FOUND, ERR_NOT_FOUND)
    /\ UNCHANGED <<db, lock, req, cache, now>>

----------------------------------------------------------------------------

\* The requests of the clients.  estimated_time is left at the field's
\* default here: it plays no part in the timers.
DEFAULT_ESTIMATED_TIME == 0

NINETY_MINUTES == 5400

TimerStepsOf(W) ==
    \/ \E w \in W, t \in TaskIds : StartTimerRequest(w, t)
    \/ \E w \in W : StartTimerGet(w)
    \/ \E w \in W : StartTimerBody(w)
    \/ \E w \in W : StartTimerCommit(w)
    \/ \E w \in W, t \in TaskIds : StopTimerRequest(w, t)
    \/ \E w \in W : StopTimerGet(w)
    \/ \E w \in W : StopTimerBody(w)
    \/ \E w \in W : StopTimerCommit(w)

TimerSteps == TimerStepsOf(Workers)

CreateDeleteSteps ==
    \/ ProjectCreate
    \/ \E p \in ProjectIds : ProjectDelete(p)
    \/ \E p \in ProjectIds, s \in Status : TaskCreate(p, s, DEFAULT_ESTIMATED_TIME)
    \/ \E t \in TaskIds : TaskDelete(t)

UpdateSteps ==
    \/ \E w \in Workers, t \in TaskIds : TaskUpdateRead(w, t)
    \/ \E w \in Workers, p \in ProjectIds \cup {NULL}, s \in Status :
          TaskUpdateSave(w, p, s, DEFAULT_ESTIMATED_TIME)

Next ==
    \/ Tick
    \/ CreateDeleteSteps
    \/ UpdateSteps
    \/ TimerSteps

Spec == Init /\ [][Next]_vars

\* The same without task updates: projects and tasks are created and
\* deleted, timers started and stopped.
NextTimers ==
    \/ Tick
    \/ CreateDeleteSteps
    \/ TimerSteps

SpecTimers == Init /\ [][NextTimers]_vars

\* The same with calls that raise inside start_timer.
NextFaults ==
    \/ NextTimers
    \/ \E w \in Workers, fault \in Faults : StartTimerFault(w, fault)
    \/ \E w \in Workers, fault \in Faults : StopTimerFault(w, fault)

SpecFaults == Init /\ [][NextFaults]_vars

\* Timers and the dashboard: one client's timer requests, with dashboard
\* requests, creates and deletes between their steps.
DashboardQueries ==
    {<<None, None>>, <<Str("None"), Str("None")>>,
     <<Str(DateString(0)), None>>, <<Str("2025-8-32"), None>>}

DashboardSteps ==
    \E q \in DashboardQueries : Dashboard(q[1], q[2])

NextDashboard ==
    \/ Tick
    \/ CreateDeleteSteps
    \/ TimerStepsOf({1})
    \/ DashboardSteps

SpecDashboard == Init /\ [][NextDashboard]_vars

\* The dashboard as a function of the tables: the tables are drawn from the
\* states that creates, timer starts and timer stops lead to, and dashboard
\* requests with and without date bounds are made on them.
Times == {k * TickSeconds : k \in 0..MaxComputeTicks}

ComputeEstimates == {NINETY_MINUTES}

\* The TimeEntry rows a start_timer and a stop_timer of task t leave.
EntryRows(T) ==
    {row \in [task : T, start_time : Times, end_time : {NULL} \cup Times,
              duration : {NULL} \cup Times] :
        IF row.end_time = NULL
        THEN row.duration = NULL
        ELSE /\ row.end_time >= row.start_time
             /\ row.duration = row.end_time - row.start_time}

\* Entries are in the order of their creation, and a task's timer is
\* started again only after it was stopped.
EntriesInOrder(en) ==
    \A e, f \in DOMAIN en :
        e < f => /\ en[e].start_time <= en[f].start_time
                 /\ en[e].task = en[f].task
                      => (en[e].end_time # NULL /\ en[e].end_time <= en[f].start_time)

InitCompute ==
    /\ projects \in SUBSET ProjectIds
    /\ \E n \in 0..MaxTasks, m \in 0..MaxEntries, est \in ComputeEstimates :
          LET T == IF projects = {} THEN {} ELSE 1..n IN
          \E st \in [T -> Status], pr \in [T -> projects],
             en \in [(IF T = {} THEN {} ELSE 1..m) -> EntryRows(T)] :
                /\ EntriesInOrder(en)
                /\ entries = en
                /\ tasks = [t \in T |->
                              [project |-> pr[t], status |-> st[t],
                               estimated_time |-> est,
                               spent_time |->
                                  LET closed == {e \in DOMAIN en :
                                                    en[e].task = t /\ en[e].end_time # NULL}
                                  IN  SumOver([e \in closed |-> en[e].duration], closed)]]
                /\ nextTask = n + 1
                /\ nextEntry = m + 1
    /\ nextProject = MaxProjects + 1
    /\ lock = [t \in TaskIds |-> 0]
    /\ req = [w \in Workers |-> Idle]
    /\ resp = NoResponse
    /\ cache = << >>
    /\ now = MaxComputeTicks * TickSeconds

ComputeQueries ==
    {<<None, None>>, <<Str(DateString(1)), None>>,
     <<Str("2025-8-1"), Str(DateString(0))>>, <<Str(""), Str(DateString(0))>>}

NextCompute == \E q \in ComputeQueries : Dashboard(q[1], q[2])

SpecCompute == InitCompute /\ [][NextCompute]_vars

\* The formatters as functions of the duration: one project with at most one
\* task whose estimated_time and spent_time are drawn from Durations; a
\* spent_time above zero is that of one entry, started at 0 and stopped.
Durations == {0, 59, 60, 3599, 3600, 5400, 7200, 36000, 86400, 359940, 360000}

InitFormat ==
    /\ projects = {1}
    /\ \E n \in 0..1, est \in Durations, spent \in Durations :
          /\ n = 0 => (est = 0 /\ spent = 0)
          /\ tasks = [t \in 1..n |->
                        [project |-> 1,
                         status |-> IF spent > 0 THEN IN_PROGRESS ELSE TODO,
                         estimated_time |-> est, spent_time |-> spent]]
          /\ entries = [e \in (IF spent > 0 THEN {1} ELSE {}) |->
                          [task |-> 1, start_time |-> 0, end_time |-> spent,
                           duration |-> spent]]
          /\ nextTask = n + 1
          /\ nextEntry = IF spent > 0 THEN 2 ELSE 1
          /\ now = spent
    /\ nextProject = 2
    /\ lock = [t \in TaskIds |-> 0]
    /\ req = [w \in Workers |-> Idle]
    /\ resp = NoResponse
    /\ cache = << >>

NextFormat ==
    \/ \E t \in TaskIds : TaskRetrieve(t)
    \/ Dashboard(None, None)

SpecFormat == InitFormat /\ [][NextFormat]_vars

\* The dashboard asked for ranges whose start_date is after their end_date,
\* on the same table states.
ReversedQueries ==
    {<<Str(DateString(1)), Str(DateString(0))>>,
     <<Str("2025-8-9"), Str(DateString(1))>>}

NextReversed == \E q \in ReversedQueries : Dashboard(q[1], q[2])

SpecReversed == InitCompute /\ [][NextReversed]_vars

\* Task creation with its answers, for project ids that exist and that do
\* not, with estimates of zero and of 90 minutes, between timers, deletes
\* and ticks of the clock.
CreateProjectIds == 1..(MaxProjects + 1)

NextCreate ==
    \/ Tick
    \/ ProjectCreate
    \/ \E p \in ProjectIds : ProjectDelete(p)
    \/ \E p \in CreateProjectIds, s \in Status, est \in {DEFAULT_ESTIMATED_TIME, NINETY_MINUTES} :
          TaskCreatePost(p, s, est)
    \/ \E t \in TaskIds : TaskDelete(t)
    \/ TimerStepsOf({1})

SpecCreate == Init /\ [][NextCreate]_vars

\* Concurrent start_timer requests for one task: a project with one task
\* and no entry, and workers that only start its timer.
RaceTask == 1

InitRace ==
    /\ projects = {1}
    /\ \E s \in Status :
          tasks = Put(<< >>, RaceTask,
                      [project |-> 1, status |-> s,
                       estimated_time |-> DEFAULT_ESTIMATED_TIME, spent_time |-> 0])
    /\ entries = << >>
    /\ nextProject = 2
    /\ nextTask = RaceTask + 1
    /\ nextEntry = 1
    /\ lock = [t \in TaskIds |-> 0]
    /\ req = [w \in Workers |-> Idle]
    /\ resp = NoResponse
    /\ cache = << >>
    /\ now = 0

NextRace ==
    \/ Tick
    \/ \E w \in Workers : StartTimerRequest(w, RaceTask)
    \/ \E w \in Workers : StartTimerGet(w)
    \/ \E w \in Workers : StartTimerBody(w)
    \/ \E w \in Workers : StartTimerCommit(w)

SpecRace == InitRace /\ [][NextRace]_vars

\* Concurrent stop_timer requests for one task: a project with one task
\* whose timer was started at 0, and workers that only stop it.
InitStopRace ==
    /\ projects = {1}
    /\ \E s \in Status \ {TODO} :
          tasks = Put(<< >>, RaceTask,
                      [project |-> 1, status |-> s,
                       estimated_time |-> DEFAULT_ESTIMATED_TIME, spent_time |-> 0])
    /\ entries = Put(<< >>, 1, new_time_entry(RaceTask, 0))
    /\ nextProject = 2
    /\ nextTask = RaceTask + 1
    /\ nextEntry = 2
    /\ lock = [t \in TaskIds |-> 0]
    /\ req = [w \in Workers |-> Idle]
    /\ resp = NoResponse
    /\ cache = << >>
    /\ now = 0

NextStopRace ==
    \/ Tick
    \/ \E w \in Workers : StopTimerRequest(w, RaceTask)
    \/ \E w \in Workers : StopTimerGet(w)
    \/ \E w \in Workers : StopTimerBody(w)
    \/ \E w \in Workers : StopTimerCommit(w)

SpecStopRace == InitStopRace /\ [][NextStopRace]_vars

----------------------------------------------------------------------------
\* Properties.

OpenEntriesOf(t) ==
    {e \in DOMAIN entries : entries[e].task = t /\ entries[e].end_time = NULL}

ClosedEntriesOf(t) ==
    {e \in DOMAIN entries : entries[e].task = t /\ entries[e].end_time # NULL}

SumDurations(S) == SumOver([e \in S |-> entries[e].duration], S)

\* The step of worker w that runs the body of its start_timer / stop_timer,
\* and the step in which its atomic block exits after a body that wrote.
StartBodyStep(w) ==
    req[w].op = "start_timer" /\ req[w].pc = "body" /\ req'[w] # req[w]

StartCommitStep(w) ==
    req[w].op = "start_timer" /\ req[w].pc = "commit" /\ req'[w] # req[w]

StopBodyStep(w) ==
    req[w].op = "stop_timer" /\ req[w].pc = "body" /\ req'[w] # req[w]

StopCommitStep(w) ==
    req[w].op = "stop_timer" /\ req[w].pc = "commit" /\ req'[w] # req[w]

\* C1: in every reachable state each Task has at most one TimeEntry whose
\* end_time is null, whatever the interleaving of timer starts and stops,
\* task creates, updates and deletes and project deletes.
C1_AtMostOneOpenEntry ==
    \A t \in TaskIds : Cardinality(OpenEntriesOf(t)) <= 1

\* C1 witness: a second start_timer holds the lock of a task whose timer is
\* already running.
C1_Witness ==
    \E w \in Workers :
        /\ req[w].op = "start_timer"
        /\ req[w].pc = "body"
        /\ Cardinality(OpenEntriesOf(req[w].task_id)) = 1

\* C2: a start_timer that finds an open TimeEntry on its task answers 400
\* 'Task already has an active timer' and changes nothing: no TimeEntry is
\* created and the task rows (status, spent_time) stay as they are.
C2_StartOnActiveRejected ==
    [][\A w \in Workers :
          (StartBodyStep(w) /\ OpenEntriesOf(req[w].task_id) # {})
            => /\ resp' = [worker |-> w, code |-> 400,
                           error |-> "Task already has an active timer",
                           data |-> NoData]
               /\ req'[w] = Idle
               /\ entries' = entries
               /\ nextEntry' = nextEntry
               /\ tasks' = tasks]_vars

\* C2 witness: the 400 has been sent while the task's entry is still open.
C2_Witness ==
    /\ resp.code = 400
    /\ resp.error = "Task already has an active timer"
    /\ \E t \in DOMAIN tasks : OpenEntriesOf(t) # {}

\* C3: a stop_timer that finds no open TimeEntry on its (existing) task
\* answers 400 'No active timer found for this task' and leaves the
\* TimeEntries, the task rows (spent_time, status) and the cache as they are.
C3_StopWithoutTimerRejected ==
    [][\A w \in Workers :
          (StopBodyStep(w) /\ OpenEntriesOf(req[w].task_id) = {})
            => /\ req[w].task_id \in DOMAIN tasks
               /\ resp' = [worker |-> w, code |-> 400,
                           error |-> "No active timer found for this task",
                           data |-> NoData]
               /\ req'[w] = Idle
               /\ entries' = entries
               /\ tasks' = tasks
               /\ cache' = cache]_vars

\* C3 witness: the 400 has been sent for a task whose only entry is closed,
\* while the cache holds a dashboard payload.
C3_Witness ==
    /\ resp.code = 400
    /\ resp.error = "No active timer found for this task"
    /\ DOMAIN cache # {}
    /\ \E t \in DOMAIN tasks : OpenEntriesOf(t) = {} /\ ClosedEntriesOf(t) # {}

\* C4: a start_timer or stop_timer whose task_id matches no Task answers 404
\* 'Task not found'; no Project, Task or TimeEntry is created or modified
\* and the cache stays as it is.
C4_MissingTaskNotFound ==
    [][\A w \in Workers :
          (/\ req[w].op \in {"start_timer", "stop_timer"}
           /\ req[w].pc = "get"
           /\ req[w].task_id \notin DOMAIN tasks
           /\ req'[w] # req[w])
            => /\ resp' = [worker |-> w, code |-> 404, error |-> "Task not found",
                           data |-> NoData]
               /\ req'[w] = Idle
               /\ projects' = projects
               /\ tasks' = tasks
               /\ entries' = entries
               /\ cache' = cache]_vars

\* C4 witness: the 404 has been sent while there are a task with an entry
\* and a cached dashboard payload that could have been touched.
C4_Witness ==
    /\ resp.code = 404
    /\ resp.error = "Task not found"
    /\ DOMAIN cache # {}
    /\ DOMAIN entries # {}

\* C5: a start_timer on an existing task without an open TimeEntry goes on
\* to create one: it samples the clock for start_time, answers 201, and the
\* table gains exactly one row, owned by the task, with that start_time and
\* null end_time and duration; every other row is as before.
C5_StartCreatesOneEntry ==
    [][\A w \in Workers :
          /\ (StartBodyStep(w) /\ OpenEntriesOf(req[w].task_id) = {})
                => /\ req'[w].pc = "commit"
                   /\ req'[w].time = now
          /\ StartCommitStep(w)
                => /\ resp' = [worker |-> w, code |-> 201, error |-> "",
                               data |-> NoData]
                   /\ nextEntry \notin DOMAIN entries
                   /\ DOMAIN entries' = DOMAIN entries \cup {nextEntry}
                   /\ entries'[nextEntry] =
                         [task |-> req[w].task_id, start_time |-> req[w].time,
                          end_time |-> NULL, duration |-> NULL]
                   /\ \A e \in DOMAIN entries : entries'[e] = entries[e]]_vars

\* C5 witness: a 201 has been sent and the new entry is open.
C5_Witness ==
    /\ resp.code = 201
    /\ \E e \in DOMAIN entries :
          /\ entries[e].end_time = NULL
          /\ entries[e].start_time > 0

\* C6: a successful start_timer turns status todo into in_progress and
\* leaves in_progress and done as they are.
C6_StartStatus ==
    [][\A w \in Workers :
          (StartCommitStep(w) /\ resp'.code = 201)
            => LET t == req[w].task_id IN
               /\ tasks[t].status = TODO => tasks'[t].status = IN_PROGRESS
               /\ tasks[t].status # TODO => tasks'[t].status = tasks[t].status]_vars

\* C6 witness: a timer was started on a done task, which is still done.
C6_Witness ==
    /\ resp.code = 201
    /\ \E t \in DOMAIN tasks : tasks[t].status = DONE /\ OpenEntriesOf(t) # {}

\* C7: a successful stop_timer samples the clock for end_time, closes the
\* task's open entry with it and stores duration = end_time - start_time,
\* which is not negative; every stored entry with an end_time has that
\* duration.
C7_StopDuration ==
    [][/\ \A w \in Workers :
            /\ (StopBodyStep(w) /\ req'[w].pc = "commit") => req'[w].time = now
            /\ StopCommitStep(w)
                  => LET e == req[w].entry IN
                     /\ e \in OpenEntriesOf(req[w].task_id)
                     /\ entries'[e].end_time = req[w].time
                     /\ entries'[e].start_time = entries[e].start_time
                     /\ entries'[e].duration = req[w].time - entries[e].start_time
       /\ \A e \in DOMAIN entries' :
            entries'[e].end_time # NULL
              => /\ entries'[e].duration = entries'[e].end_time - entries'[e].start_time
                 /\ entries'[e].duration >= 0]_vars

\* C7 witness: a stop_timer has answered 200 and closed an entry that ran
\* for some time.
C7_Witness ==
    /\ resp.code = 200
    /\ \E e \in DOMAIN entries : entries[e].end_time # NULL /\ entries[e].duration > 0

\* C8: when tasks are created through the API and timers started and
\* stopped, a task's spent_time is the sum of the durations of its closed
\* TimeEntries.
C8_SpentTimeIsSum ==
    \A t \in DOMAIN tasks : tasks[t].spent_time = SumDurations(ClosedEntriesOf(t))

\* C8 witness: a task with two closed entries, each of which ran for some
\* time.
C8_Witness ==
    \E t \in DOMAIN tasks :
        /\ Cardinality(ClosedEntriesOf(t)) = 2
        /\ \A e \in ClosedEntriesOf(t) : entries[e].duration > 0

\* C9: a task's spent_time never decreases, and it changes only in the step
\* that commits a successful stop_timer of that task.
C9_SpentTimeOnlyByStop ==
    [][\A t \in DOMAIN tasks \cap DOMAIN tasks' :
          /\ tasks'[t].spent_time >= tasks[t].spent_time
          /\ tasks'[t].spent_time # tasks[t].spent_time
                => \E w \in Workers :
                      StopCommitStep(w) /\ req[w].task_id = t /\ resp'.code = 200]_vars

\* C10: of the start_timer requests that run concurrently on a task without
\* an open entry, the one that finishes first creates the TimeEntry and
\* answers 201, and every other answers 400 'Task already has an active
\* timer' and creates nothing; no two of them are past the lock at once.
C10_ConcurrentStartsSerialized ==
    [][/\ \A w \in Workers :
            (req[w].op = "start_timer" /\ req'[w] = Idle)
              => IF DOMAIN entries = {}
                 THEN /\ resp' = [worker |-> w, code |-> 201, error |-> "",
                                  data |-> NoData]
                      /\ Cardinality(DOMAIN entries') = 1
                 ELSE /\ resp' = [worker |-> w, code |-> 400,
                                  error |-> "Task already has an active timer",
                                  data |-> NoData]
                      /\ entries' = entries
       /\ \A w1, w2 \in Workers :
            (w1 # w2 /\ req'[w1].task_id = req'[w2].task_id)
              => ~ (req'[w1].pc \in {"body", "commit"} /\ req'[w2].pc \in {"body", "commit"})
      ]_vars

\* C10 witness: one request is about to commit its entry while another
\* waits for the row lock, and a rejected request after a created entry.
C10_Witness ==
    \E w1, w2 \in Workers :
        /\ w1 # w2
        /\ req[w1].op = "start_timer" /\ req[w1].pc = "commit"
        /\ req[w2].op = "start_timer" /\ req[w2].pc = "get"
        /\ req[w1].task_id = req[w2].task_id

\* C11: a start_timer that answers 500 leaves the TimeEntries and the task
\* rows as they were: no entry of the request is stored and the status is
\* unchanged.
C11_FailedStartLeavesNothing ==
    [][\A w \in Workers :
          (StartCommitStep(w) /\ resp'.code = 500)
            => /\ entries' = entries
               /\ tasks' = tasks]_vars

\* The date_range_filter of a payload, empty when the key is absent.
FilterOf(data) ==
    IF "date_range_filter" \in DOMAIN data THEN data.date_range_filter ELSE << >>

\* A step that is the dashboard request with the given parameters: the
\* response is the dashboard's (it names no worker); when computed for
\* these parameters it carries their date filter, and a refusal is of a
\* parameter that is no date.
DashboardStep(start_date, end_date) ==
    /\ resp'.worker = 0
    /\ resp'.code # 0
    /\ (resp'.code = 200 /\ dashboard_cache_key(start_date, end_date) \notin DOMAIN cache)
          => FilterOf(resp'.data) = date_filter(start_date, end_date)
    /\ resp'.code # 200
          => \/ truthy(start_date) /\ strptime(start_date.value) = ValueError
             \/ truthy(end_date) /\ strptime(end_date.value) = ValueError
    /\ Dashboard(start_date, end_date)

\* The step in which the body of worker w's start_timer or stop_timer gets
\* past its checks and evicts from the cache; without faults the request
\* then succeeds.
TimerEvictStep(w) ==
    /\ req[w].op \in {"start_timer", "stop_timer"}
    /\ req[w].pc = "body"
    /\ req'[w].pc = "commit"

\* C12: once a successful start_timer or stop_timer has evicted, the cache
\* holds no entry under the key that a dashboard request without start_date
\* and end_date reads and writes, and none under the per-project metrics key
\* of the task's project.
C12_TimerEvictsDashboard ==
    [][\A w \in Workers :
          TimerEvictStep(w)
            => /\ dashboard_cache_key(None, None) \notin DOMAIN cache'
               /\ project_metrics_key(tasks[req[w].task_id].project)
                     \notin DOMAIN cache']_vars

\* C13: a dashboard request without date filters made when some stop_timer
\* has completed (a closed TimeEntry exists) answers 200 with
\* total_spent_time the formatted sum of the tasks' spent_time and, per
\* project, the formatted sum of its tasks' spent_time, as they are in the
\* tables at that moment.
C13_DashboardFreshAfterStop ==
    [][((\E e \in DOMAIN entries : entries[e].end_time # NULL)
            /\ DashboardStep(None, None))
          => /\ resp'.code = 200
             /\ resp'.data.total_spent_time =
                    format_duration(time_aggregates.total_spent)
             /\ resp'.data.time_spent_per_project = project_time_data(None, None)]_vars

\* C14: a dashboard request that computes its payload stores it under the
\* key of its (start_date, end_date) pair, with the 300 s timeout, and
\* answers it; a request that finds an entry under the key of its pair
\* answers 200 with the stored payload as it is and leaves the cache alone,
\* whatever the tables hold by then.
C14_DashboardCacheHit ==
    [][\A q \in DashboardQueries :
          DashboardStep(q[1], q[2])
            => LET key == dashboard_cache_key(q[1], q[2]) IN
               /\ key \in DOMAIN cache
                    => /\ resp'.code = 200
                       /\ resp'.data = cache[key].data
                       /\ cache' = cache
               /\ (key \notin DOMAIN cache /\ resp'.code = 200)
                    => /\ DOMAIN cache' = DOMAIN cache \cup {key}
                       /\ cache'[key] = [data |-> resp'.data, expires |-> now + 300]
                       /\ \A k \in DOMAIN cache : cache'[k] = cache[k]]_vars

\* C14 witness: a dashboard request without filters was answered from the
\* cache with a total_spent_time that the tables no longer have.
C14_Witness ==
    /\ resp.worker = 0
    /\ resp.code = 200
    /\ dashboard_cache_key(None, None) \in DOMAIN cache
    /\ resp.data = cache[dashboard_cache_key(None, None)].data
    /\ resp.data.total_spent_time # format_duration(time_aggregates.total_spent)

\* The dashboard requests that carry a start_date or an end_date.
RangeQueries == {q \in DashboardQueries : truthy(q[1]) \/ truthy(q[2])}

\* C15: no step of a start_timer or stop_timer request changes or removes
\* a cache entry stored for a dashboard request with a start_date or an
\* end_date.
C15_TimersKeepRangeEntries ==
    [][\A w \in Workers :
          (req[w].op \in {"start_timer", "stop_timer"} /\ req'[w] # req[w])
            => \A q \in RangeQueries :
                  LET key == dashboard_cache_key(q[1], q[2]) IN
                  key \in DOMAIN cache
                    => key \in DOMAIN cache' /\ cache'[key] = cache[key]]_vars

\* C15 witness: a stop_timer has answered 200 while the cache holds the
\* payload of a request with a start_date, in which a project's spent_time
\* is '00:00' although its closed entries in that range now sum to more.
C15_Witness ==
    LET q == <<Str(DateString(0)), None>>
        key == dashboard_cache_key(q[1], q[2])
    IN  /\ resp.code = 200
        /\ resp.worker # 0
        /\ key \in DOMAIN cache
        /\ \E i \in DOMAIN cache[key].data.time_spent_per_project :
              LET row == cache[key].data.time_spent_per_project[i] IN
              /\ row.project_id \in projects
              /\ row.spent_time = "00:00"
              /\ project_spent_time(row.project_id, q[1], q[2]) # "00:00"

\* A parameter that is given, not empty, and not a date '%Y-%m-%d' accepts.
InvalidDate(x) == truthy(x) /\ strptime(x.value) = ValueError

\* C20: a dashboard request whose start_date or end_date is given and is
\* not a valid date is answered 400 with the error that names the first
\* invalid field, whatever the cache holds, and stores nothing.
C20_InvalidDateRejected ==
    [][\A q \in DashboardQueries :
          ((InvalidDate(q[1]) \/ InvalidDate(q[2])) /\ DashboardStep(q[1], q[2]))
            => /\ resp'.code = 400
               /\ resp'.error = IF InvalidDate(q[1])
                                THEN "Invalid start_date format. Use YYYY-MM-DD"
                                ELSE "Invalid end_date format. Use YYYY-MM-DD"
               /\ cache' = cache]_vars

\* C16: a dashboard response computed for a request without filters has in
\* task_counts exactly the keys todo, in_progress and done, each with the
\* number of tasks of that status (0 when there is none), and the three
\* numbers add up to the number of tasks.
C16_TaskCounts ==
    [][(dashboard_cache_key(None, None) \notin DOMAIN cache /\ DashboardStep(None, None))
          => LET counts == resp'.data.task_counts IN
             /\ resp'.code = 200
             /\ DOMAIN counts = {"todo", "in_progress", "done"}
             /\ \A s \in DOMAIN counts :
                   counts[s] = Cardinality({t \in DOMAIN tasks : tasks[t].status = s})
             /\ counts["todo"] + counts["in_progress"] + counts["done"]
                   = Cardinality(DOMAIN tasks)]_vars

\* C16 witness: an unfiltered response that counts two done tasks and no
\* task of the other statuses.
C16_Witness ==
    /\ resp.worker = 0
    /\ resp.code = 200
    /\ "date_range_filter" \notin DOMAIN resp.data
    /\ resp.data.task_counts = [todo |-> 0, in_progress |-> 0, done |-> 2]

\* The closed TimeEntries of project p's tasks whose start_time falls on a
\* day within the bounds that are given, both inclusive.
ClosedInRange(p, start_date, end_date) ==
    {e \in DOMAIN entries :
        /\ tasks[entries[e].task].project = p
        /\ entries[e].end_time # NULL
        /\ truthy(start_date)
              => entries[e].start_time \div 86400 >= strptime(start_date.value)
        /\ truthy(end_date)
              => entries[e].start_time \div 86400 <= strptime(end_date.value)}

C18_GlobalAggregates ==
    /\ \A k1, k2 \in DOMAIN cache :
          /\ cache[k1].data.task_counts = cache[k2].data.task_counts
          /\ cache[k1].data.total_estimated_time = cache[k2].data.total_estimated_time
          /\ cache[k1].data.total_spent_time = cache[k2].data.total_spent_time
    /\ \A k \in DOMAIN cache :
          /\ cache[k].data.task_counts =
                [s \in Status |-> Cardinality({t \in DOMAIN tasks : tasks[t].status = s})]
          /\ cache[k].data.total_estimated_time =
                format_duration(SumOver([t \in DOMAIN tasks |-> tasks[t].estimated_time],
                                        DOMAIN tasks))
          /\ cache[k].data.total_spent_time =
                format_duration(SumOver([t \in DOMAIN tasks |-> tasks[t].spent_time],
                                        DOMAIN tasks))

\* C18 witness: payloads computed without a range and with a start_date are
\* stored; they differ in a project's spent_time and the totals are not
\* '00:00'.
C18_Witness ==
    LET k1 == dashboard_cache_key(None, None)
        k2 == dashboard_cache_key(Str(DateString(1)), None)
    IN  /\ k1 \in DOMAIN cache
        /\ k2 \in DOMAIN cache
        /\ cache[k1].data.time_spent_per_project # cache[k2].data.time_spent_per_project
        /\ cache[k1].data.total_spent_time # "00:00"
        /\ cache[k1].data.total_estimated_time # "00:00"

\* A step in which the dashboard request with the pair q computes its
\* response.
ComputedStep(q) ==
    /\ dashboard_cache_key(q[1], q[2]) \notin DOMAIN cache
    /\ DashboardStep(q[1], q[2])
    /\ resp'.code = 200

TwoDigits(n) == IF n < 10 THEN "0" \o ToString(n) ELSE ToString(n)

\* HH:MM of a duration in seconds: hours without rollover, minutes of the
\* rest, '00:00' for none or zero.
HoursMinutes(d) ==
    IF d = NULL \/ d = 0
    THEN "00:00"
    ELSE TwoDigits(d \div 3600) \o ":" \o TwoDigits((d % 3600) \div 60)

\* C21: format_duration gives '00:00' for an absent or zero duration and
\* otherwise floor(seconds / 3600) with at least two digits, ':', and
\* floor((seconds mod 3600) / 60) with two digits: 90 minutes is '01:30',
\* 2 hours '02:00', 24 hours '24:00', 100 hours '100:00'; the dashboard
\* totals carry that string, and the task serializer's estimated_time_hours
\* and spent_time_hours are the string format_duration gives for the task's
\* estimated_time and spent_time.
C21_DurationFormat ==
    /\ format_duration(time_aggregates.total_spent)
          = HoursMinutes(time_aggregates.total_spent)
    /\ format_duration(time_aggregates.total_estimated)
          = HoursMinutes(time_aggregates.total_estimated)
    /\ tasks = << >> => format_duration(time_aggregates.total_spent) = "00:00"
    /\ \A t \in DOMAIN tasks :
          /\ tasks[t].estimated_time = 0 => format_duration(tasks[t].estimated_time) = "00:00"
          /\ tasks[t].estimated_time = 5400 => format_duration(tasks[t].estimated_time) = "01:30"
          /\ tasks[t].estimated_time = 7200 => format_duration(tasks[t].estimated_time) = "02:00"
          /\ tasks[t].spent_time = 86400 => format_duration(tasks[t].spent_time) = "24:00"
          /\ tasks[t].spent_time = 359940 => format_duration(tasks[t].spent_time) = "99:59"
          /\ tasks[t].spent_time = 360000 => format_duration(tasks[t].spent_time) = "100:00"
    /\ (resp.code = 200 /\ "total_spent_time" \in DOMAIN resp.data)
          => /\ resp.data.total_spent_time = HoursMinutes(time_aggregates.total_spent)
             /\ resp.data.total_estimated_time = HoursMinutes(time_aggregates.total_estimated)
    /\ (resp.code = 200 /\ "spent_time_hours" \in DOMAIN resp.data)
          => /\ resp.data.spent_time_hours = format_duration(resp.data.spent_time)
             /\ resp.data.estimated_time_hours = format_duration(resp.data.estimated_time)
             /\ resp.data.spent_time_hours = HoursMinutes(resp.data.spent_time)
             /\ resp.data.estimated_time_hours = HoursMinutes(resp.data.estimated_time)

\* C21 witness: a task read back with 24 hours spent and 90 minutes
\* estimated, after the dashboard was computed for the same table.
C21_Witness ==
    /\ resp.code = 200
    /\ "spent_time_hours" \in DOMAIN resp.data
    /\ resp.data.spent_time_hours = "24:00"
    /\ resp.data.estimated_time_hours = "01:30"
    /\ dashboard_cache_key(None, None) \in DOMAIN cache
    /\ cache[dashboard_cache_key(None, None)].data.total_spent_time = "24:00"

\* C22: a TimeEntry whose end_time is set never changes again (start_time,
\* end_time, duration and task stay, end_time stays set); an entry changes
\* only in the step in which a stop_timer closes it, which sets end_time and
\* keeps start_time and task; an entry leaves the table only in a step that
\* deletes its task (by itself or with its project).
C22_EntryMutatedOnce ==
    [][\A e \in DOMAIN entries :
          /\ e \in DOMAIN entries'
                => /\ entries[e].end_time # NULL => entries'[e] = entries[e]
                   /\ entries'[e] # entries[e]
                        => /\ \E w \in Workers : StopCommitStep(w) /\ req[w].entry = e
                           /\ entries'[e].end_time # NULL
                           /\ entries'[e].start_time = entries[e].start_time
                           /\ entries'[e].task = entries[e].task
          /\ e \notin DOMAIN entries'
                => /\ entries[e].task \in DOMAIN tasks
                   /\ entries[e].task \notin DOMAIN tasks']_vars

\* C22 witness: an entry closed earlier is still there while its task has
\* been started again and updated.
C22_Witness ==
    \E e \in DOMAIN entries :
        /\ entries[e].end_time # NULL
        /\ entries[e].end_time < now
        /\ OpenEntriesOf(entries[e].task) # {}
        /\ resp.code = 200
        /\ resp.worker # 0
        /\ \A w \in Workers : req[w] = Idle

\* C23: for a task that exists before and after a step, an open entry
\* appears only in the step of a start_timer on that task that answers 201,
\* and its open entry goes away only in the step of a stop_timer on that
\* task that answers 200; has_active_timer is true exactly when the task has
\* an open entry, and active_timer is that entry.
C23_TimerStateTransitions ==
    [][\A t \in DOMAIN tasks \cap DOMAIN tasks' :
          LET was == OpenEntriesOf(t) # {}
              is == \E e \in DOMAIN entries' :
                        entries'[e].task = t /\ entries'[e].end_time = NULL
          IN  /\ has_active_timer(t) <=> was
              /\ active_timer(t) = OpenEntriesOf(t)
              /\ (~was /\ is)
                    => \E w \in Workers :
                          /\ StartCommitStep(w) /\ req[w].task_id = t
                          /\ resp'.worker = w /\ resp'.code = 201
              /\ (was /\ ~is)
                    => \E w \in Workers :
                          /\ StopCommitStep(w) /\ req[w].task_id = t
                          /\ resp'.worker = w /\ resp'.code = 200]_vars

\* C24: a step that removes a project removes all its tasks, a step that
\* removes a task removes all its entries, open or closed; and after every
\* step each entry's task is in the tasks table and each task's project in
\* the projects table.
C24_CascadeAndReferences ==
    [][/\ \A p \in projects \ projects' :
             \A t \in TasksOfProject(p) : t \notin DOMAIN tasks'
       /\ \A t \in DOMAIN tasks \ DOMAIN tasks' :
             \A e \in time_entries(t) : e \notin DOMAIN entries'
       /\ \A e \in DOMAIN entries' : entries'[e].task \in DOMAIN tasks'
       /\ \A t \in DOMAIN tasks' : tasks'[t].project \in projects']_vars

\* C24 witness: a project, two tasks and two entries were created and
\* nothing of them is left.
C24_Witness ==
    /\ nextProject = 2 /\ projects = {}
    /\ nextTask = 3 /\ tasks = << >>
    /\ nextEntry = 3 /\ entries = << >>

\* C25: a dashboard request with valid dates and start_date after end_date
\* is answered 400 or 200, and a 200 reports '00:00' as the spent_time of
\* every project in time_spent_per_project.
C25_ReversedRangeEmpty ==
    [][\A q \in ReversedQueries :
          (/\ strptime(q[1].value) # ValueError
           /\ strptime(q[2].value) # ValueError
           /\ strptime(q[1].value) > strptime(q[2].value)
           /\ DashboardStep(q[1], q[2]))
            => /\ resp'.code \in {200, 400}
               /\ resp'.code = 200
                    => \A i \in DOMAIN resp'.data.time_spent_per_project :
                          resp'.data.time_spent_per_project[i].spent_time = "00:00"]_vars

\* C25 witness: the reversed range 2025-08-02 .. 2025-08-01 was answered 200
\* for a project that has closed entries of a positive duration on both days.
C25_Witness ==
    /\ resp.worker = 0
    /\ resp.code = 200
    /\ FilterOf(resp.data) = [start_date |-> DateString(1), end_date |-> DateString(0)]
    /\ resp.data.time_spent_per_project # << >>
    /\ \E e, f \in DOMAIN entries :
          /\ entries[e].end_time # NULL /\ entries[e].duration > 0
          /\ entries[f].end_time # NULL /\ entries[f].duration > 0
          /\ date(entries[e].start_time) = 0
          /\ date(entries[f].start_time) = 1

\* C26: a task create whose project_id names a project in the table answers
\* 201, and the new task is a new row of that project with spent_time 0 and
\* no entry, the other rows staying as they are; a create whose project_id
\* names no project in the table answers an error and adds no task.
C26_TaskCreate ==
    [][\A p \in CreateProjectIds, s \in Status,
          est \in {DEFAULT_ESTIMATED_TIME, NINETY_MINUTES} :
          TaskCreatePost(p, s, est)
            => /\ p \in projects
                    => /\ resp'.code = 201
                       /\ nextTask \notin DOMAIN tasks
                       /\ DOMAIN tasks' = DOMAIN tasks \cup {nextTask}
                       /\ tasks'[nextTask].project = p
                       /\ tasks'[nextTask].spent_time = 0
                       /\ tasks'[nextTask].status = s
                       /\ tasks'[nextTask].estimated_time = est
                       /\ \A e \in DOMAIN entries' : entries'[e].task # nextTask
                       /\ \A t \in DOMAIN tasks : tasks'[t] = tasks[t]
                       /\ entries' = entries
               /\ p \notin projects
                    => /\ resp'.code >= 400
                       /\ tasks' = tasks
                       /\ entries' = entries]_vars

\* C26 witness: a second task was created (201) in a project whose first
\* task has a closed entry.
C26_Witness ==
    /\ resp.worker = 0
    /\ resp.code = 201
    /\ resp.data.id = 2
    /\ 2 \in DOMAIN tasks
    /\ tasks[2].spent_time = 0
    /\ \E e \in DOMAIN entries : entries[e].task = 1 /\ entries[e].end_time # NULL

\* C27: of the stop_timer requests that run concurrently on a task with one
\* open entry, the one that finishes first closes the entry, answers 200 and
\* adds the entry's duration to spent_time; every other answers 400 'No
\* active timer found for this task' and changes nothing, so the duration is
\* added once; no two of them are past the lock at once.
C27_ConcurrentStopsSerialized ==
    [][/\ \A w \in Workers :
            (req[w].op = "stop_timer" /\ req'[w] = Idle)
              => IF OpenEntriesOf(RaceTask) # {}
                 THEN /\ resp' = [worker |-> w, code |-> 200, error |-> "",
                                  data |-> NoData]
                      /\ \A e \in OpenEntriesOf(RaceTask) :
                            /\ entries'[e].end_time # NULL
                            /\ entries'[e].end_time <= now
                            /\ entries'[e].duration
                                  = entries'[e].end_time - entries[e].start_time
                            /\ tasks'[RaceTask].spent_time
                                  = tasks[RaceTask].spent_time + entries'[e].duration
                 ELSE /\ resp' = [worker |-> w, code |-> 400,
                                  error |-> "No active timer found for this task",
                                  data |-> NoData]
                      /\ entries' = entries
                      /\ tasks' = tasks
       /\ tasks'[RaceTask].spent_time
             = SumOver([e \in DOMAIN entries' |->
                           IF entries'[e].end_time = NULL THEN 0 ELSE entries'[e].duration],
                       DOMAIN entries')
       /\ \A w1, w2 \in Workers :
            (w1 # w2 /\ req'[w1].task_id = req'[w2].task_id)
              => ~ (req'[w1].pc \in {"body", "commit"} /\ req'[w2].pc \in {"body", "commit"})
      ]_vars

\* C27 witness: one request is about to commit the stop of a timer that ran
\* for a while, and another waits for the row lock.
C27_Witness ==
    \E w1, w2 \in Workers :
        /\ w1 # w2
        /\ req[w1].op = "stop_timer" /\ req[w1].pc = "commit"
        /\ req[w1].time > 0
        /\ req[w2].op = "stop_timer" /\ req[w2].pc = "get"
        /\ req[w1].task_id = req[w2].task_id

\* The open entries of task t after the step.
OpenEntriesAfter(t) ==
    {e \in DOMAIN entries' : entries'[e].task = t /\ entries'[e].end_time = NULL}

\* C28: a start_timer that holds a task without an open entry is not
\* rejected and answers 201 with a new entry, distinct from every entry in
\* the table, as the task's only open entry, the other entries staying as
\* they are; a stop_timer that holds a task with an open entry is not
\* rejected, answers 200 and closes that entry, after which the task has no
\* open entry and the other entries are as before.
C28_TimerCycles ==
    [][\A w \in Workers :
          LET t == req[w].task_id IN
          /\ (StartBodyStep(w) /\ OpenEntriesOf(t) = {}) => req'[w].pc = "commit"
          /\ StartCommitStep(w)
                => /\ resp'.worker = w /\ resp'.code = 201
                   /\ nextEntry \notin DOMAIN entries
                   /\ OpenEntriesAfter(t) = {nextEntry}
                   /\ \A e \in DOMAIN entries : entries'[e] = entries[e]
          /\ (StopBodyStep(w) /\ OpenEntriesOf(t) # {})
                => /\ req'[w].pc = "commit"
                   /\ OpenEntriesOf(t) = {req'[w].entry}
          /\ StopCommitStep(w)
                => /\ resp'.worker = w /\ resp'.code = 200
                   /\ OpenEntriesOf(t) = {req[w].entry}
                   /\ OpenEntriesAfter(t) = {}
                   /\ DOMAIN entries' = DOMAIN entries
                   /\ \A e \in DOMAIN entries \ {req[w].entry} : entries'[e] = entries[e]]_vars

\* C28 witness: a task was started, stopped after a while and started again;
\* the second start answered 201 and the first entry is closed as it was.
C28_Witness ==
    /\ resp.code = 201
    /\ \E e, f \in DOMAIN entries :
          /\ e # f
          /\ entries[e].task = entries[f].task
          /\ entries[e].end_time # NULL /\ entries[e].duration > 0
          /\ entries[f].end_time = NULL
          /\ entries[f].start_time >= entries[e].end_time

\* C29: a stop_timer that answers 500 leaves the TimeEntries and the task
\* rows as they were: the entry it found open is still open, with null
\* end_time and duration, and spent_time is unchanged.
C29_FailedStopLeavesNothing ==
    [][\A w \in Workers :
          (StopCommitStep(w) /\ resp'.code = 500)
            => /\ entries' = entries
               /\ entries'[req[w].entry].end_time = NULL
               /\ entries'[req[w].entry].duration = NULL
               /\ tasks' = tasks]_vars

\* C30: a stop_timer that answers 200 leaves the task's status,
\* estimated_time and project, every other entry, every other task and the
\* projects as they are; a start_timer that answers 201 leaves the task's
\* spent_time, estimated_time and project, every other task and the projects
\* as they are.
C30_TimerFrame ==
    [][\A w \in Workers :
          LET t == req[w].task_id IN
          /\ (StopCommitStep(w) /\ resp'.code = 200)
                => /\ tasks'[t].status = tasks[t].status
                   /\ tasks'[t].estimated_time = tasks[t].estimated_time
                   /\ tasks'[t].project = tasks[t].project
                   /\ DOMAIN entries' = DOMAIN entries
                   /\ \A e \in DOMAIN entries \ {req[w].entry} : entries'[e] = entries[e]
                   /\ DOMAIN tasks' = DOMAIN tasks
                   /\ \A u \in DOMAIN tasks \ {t} : tasks'[u] = tasks[u]
                   /\ projects' = projects
          /\ (StartCommitStep(w) /\ resp'.code = 201)
                => /\ tasks'[t].spent_time = tasks[t].spent_time
                   /\ tasks'[t].estimated_time = tasks[t].estimated_time
                   /\ tasks'[t].project = tasks[t].project
                   /\ DOMAIN tasks' = DOMAIN tasks
                   /\ \A u \in DOMAIN tasks \ {t} : tasks'[u] = tasks[u]
                   /\ projects' = projects]_vars

\* C30 witness: a stop_timer answered 200 on a task that is still todo or
\* in progress with a 90 minute estimate, next to another task with time
\* spent, and the stop added time of its own.
C30_Witness ==
    /\ resp.code = 200
    /\ resp.worker # 0
    /\ \E t, u \in DOMAIN tasks :
          /\ t # u
          /\ tasks[t].estimated_time = NINETY_MINUTES
          /\ tasks[t].status = IN_PROGRESS
          /\ tasks[t].spent_time > 0
          /\ tasks[u].status = DONE
          /\ \E e \in DOMAIN entries : entries[e].task = u

====
